---- MODULE Spec2Model ----
(***************************************************************************)
(* Model of scripts/multi_api_checker.py (PlagiarismGuard): the local      *)
(* scoring pipeline (clean_text, get_ngrams, calculate_tfidf_similarity,   *)
(* calculate_ngram_overlap, extract_key_phrases), PlagiarismChecker.analyze *)
(* with its optional external detection services, and main's flag          *)
(* handling.                                                               *)
(*                                                                         *)
(* Texts are sequences of one-character strings.  Python floats are        *)
(* modelled as IEEE-754 binary64 values (non-negative, normal range) with  *)
(* round-to-nearest-even arithmetic on arbitrary-precision mantissas.      *)
(***************************************************************************)
EXTENDS Integers, Sequences, FiniteSets, TLC

(***************************************************************************)
(* Arbitrary-precision naturals: little-endian sequences of limbs in       *)
(* 0..Base-1 without leading (high) zero limbs; <<>> is zero.              *)
(***************************************************************************)
LimbBits == 15
Base == 2 ^ LimbBits

\* e, once v has been evaluated: keeps the evaluation of the recursive
\* definitions below shallow
Strict(v, e) == IF v = v THEN e ELSE e

\* F applied to the value v: a local name for a value that is used more
\* than once
With(v, F(_)) == F(v)

RECURSIVE BStrip(_)
BStrip(a) ==
  IF a = <<>> THEN <<>>
  ELSE IF a[Len(a)] = 0 THEN BStrip(SubSeq(a, 1, Len(a) - 1)) ELSE a

BFromInt(n) ==
  IF n = 0 THEN <<>>
  ELSE IF n < Base THEN <<n>>
  ELSE <<n % Base, n \div Base>>

RECURSIVE BAddC(_, _, _)
BAddC(a, b, c) ==
  IF a = <<>> /\ b = <<>> THEN (IF c = 0 THEN <<>> ELSE <<c>>)
  ELSE LET x == IF a = <<>> THEN 0 ELSE Head(a)
           y == IF b = <<>> THEN 0 ELSE Head(b)
           s == x + y + c
       IN  <<s % Base>> \o BAddC(IF a = <<>> THEN <<>> ELSE Tail(a),
                                 IF b = <<>> THEN <<>> ELSE Tail(b),
                                 s \div Base)

BAdd(a, b) == BAddC(a, b, 0)

RECURSIVE BSubC(_, _, _)
BSubC(a, b, c) ==
  IF a = <<>> THEN <<>>
  ELSE LET y == IF b = <<>> THEN 0 ELSE Head(b)
           d == Head(a) - y - c
       IN  <<IF d < 0 THEN d + Base ELSE d>>
             \o BSubC(Tail(a), IF b = <<>> THEN <<>> ELSE Tail(b),
                      IF d < 0 THEN 1 ELSE 0)

\* a - b for a >= b
BSub(a, b) == BStrip(BSubC(a, b, 0))

RECURSIVE BCmpFrom(_, _, _)
BCmpFrom(a, b, i) ==
  IF i = 0 THEN 0
  ELSE IF a[i] < b[i] THEN -1
  ELSE IF a[i] > b[i] THEN 1
  ELSE BCmpFrom(a, b, i - 1)

\* -1, 0, 1 as a < b, a = b, a > b
BCmp(a, b) ==
  IF Len(a) < Len(b) THEN -1
  ELSE IF Len(a) > Len(b) THEN 1
  ELSE BCmpFrom(a, b, Len(a))

RECURSIVE BMulSmallC(_, _, _)
BMulSmallC(a, k, c) ==
  IF a = <<>> THEN (IF c = 0 THEN <<>> ELSE <<c>>)
  ELSE LET p == Head(a) * k + c
       IN  <<p % Base>> \o BMulSmallC(Tail(a), k, p \div Base)

\* a * k for 0 <= k < Base
BMulSmall(a, k) == BStrip(BMulSmallC(a, k, 0))

RECURSIVE BMul(_, _)
BMul(a, b) ==
  IF a = <<>> \/ b = <<>> THEN <<>>
  ELSE BAdd(BMulSmall(a, Head(b)),
            LET hi == BMul(a, Tail(b))
            IN  IF hi = <<>> THEN <<>> ELSE <<0>> \o hi)

RECURSIVE BDivSmallR(_, _)
BDivSmallR(a, k) ==
  IF a = <<>> THEN [q |-> <<>>, r |-> 0]
  ELSE LET hi  == BDivSmallR(Tail(a), k)
           cur == hi.r * Base + Head(a)
       IN  [q |-> <<cur \div k>> \o hi.q, r |-> cur % k]

\* floor(a / k) for 0 < k <= Base
BDivSmall(a, k) == BStrip(BDivSmallR(a, k).q)

Zeros(n) == [i \in 1..n |-> 0]

\* a * 2^n
BShl(a, n) ==
  IF a = <<>> THEN <<>>
  ELSE Zeros(n \div LimbBits) \o BMulSmall(a, 2 ^ (n % LimbBits))

\* floor(a / 2^n)
BShr(a, n) ==
  IF n \div LimbBits >= Len(a) THEN <<>>
  ELSE BDivSmall(SubSeq(a, n \div LimbBits + 1, Len(a)), 2 ^ (n % LimbBits))

RECURSIVE BitLenSmall(_)
BitLenSmall(k) == IF k = 0 THEN 0 ELSE 1 + BitLenSmall(k \div 2)

BBitLen(a) ==
  IF a = <<>> THEN 0
  ELSE LimbBits * (Len(a) - 1) + BitLenSmall(a[Len(a)])

\* bit i (0 = least significant) of a
BBit(a, i) ==
  IF i \div LimbBits + 1 > Len(a) THEN 0
  ELSE (a[i \div LimbBits + 1] \div (2 ^ (i % LimbBits))) % 2

\* a mod 2^n = 0
BLowZero(a, n) ==
  /\ \A i \in 1..(n \div LimbBits) : i > Len(a) \/ a[i] = 0
  /\ \/ n \div LimbBits + 1 > Len(a)
     \/ a[n \div LimbBits + 1] % (2 ^ (n % LimbBits)) = 0

(***************************************************************************)
(* Python float: IEEE-754 binary64, non-negative values in the normal      *)
(* range.  A value is [m, e] with m a 53-bit mantissa (2^52 <= m < 2^53)    *)
(* standing for m * 2^e; zero is [m |-> <<>>, e |-> 0].                    *)
(***************************************************************************)
Precision == 53

FZero == [m |-> <<>>, e |-> 0]

\* nearest binary64 to (m + f) * 2^e, 0 <= f < 1, f > 0 iff sticky;
\* ties to even.  With sticky, m carries at least Precision + 2 bits.
FRound(m, e, sticky) ==
  IF m = <<>> THEN FZero
  ELSE With(BBitLen(m) - Precision, LAMBDA shift :
         IF shift <= 0 THEN [m |-> BShl(m, 0 - shift), e |-> e + shift]
         ELSE With(BShr(m, shift), LAMBDA q :
                LET half == BBit(m, shift - 1) = 1
                    rest == sticky \/ ~BLowZero(m, shift - 1)
                    up   == half /\ (rest \/ BBit(q, 0) = 1)
                IN  With(IF up THEN BAdd(q, <<1>>) ELSE q, LAMBDA q1 :
                      IF BBitLen(q1) > Precision
                      THEN [m |-> BShr(q1, 1), e |-> e + shift + 1]
                      ELSE [m |-> q1, e |-> e + shift])))

\* float(n) for a small natural n
FInt(n) == FRound(BFromInt(n), 0, FALSE)

\* x < y, x = y, x > y as -1, 0, 1
FCmp(x, y) ==
  IF x.m = <<>> THEN (IF y.m = <<>> THEN 0 ELSE -1)
  ELSE IF y.m = <<>> THEN 1
  ELSE IF x.e < y.e THEN -1
  ELSE IF x.e > y.e THEN 1
  ELSE BCmp(x.m, y.m)

FAdd(x, y) ==
  IF x.m = <<>> THEN y
  ELSE IF y.m = <<>> THEN x
  ELSE With(IF x.e < y.e THEN x.e ELSE y.e, LAMBDA e :
         FRound(BAdd(BShl(x.m, x.e - e), BShl(y.m, y.e - e)), e, FALSE))

FMul(x, y) ==
  IF x.m = <<>> \/ y.m = <<>> THEN FZero
  ELSE FRound(BMul(x.m, y.m), x.e + y.e, FALSE)

\* one step of long division: for t < d * Base, with the top limb of d at
\* least Base/2, the digit floor(t / d) and the remainder
RECURSIVE DivFix(_, _, _)
DivFix(t, d, qhat) ==
  With(BMulSmall(d, qhat), LAMBDA p :
    IF BCmp(p, t) > 0 THEN DivFix(t, d, qhat - 1)
    ELSE [q |-> qhat, r |-> BSub(t, p)])

DivStep(t, d) ==
  LET n    == Len(d)
      hi   == IF Len(t) > n THEN t[n + 1] ELSE 0
      lo   == IF Len(t) >= n THEN t[n] ELSE 0
  IN  With((hi * Base + lo) \div d[n], LAMBDA est :
        DivFix(t, d, IF est > Base - 1 THEN Base - 1 ELSE est))

\* long division of the limbs n[1..i] below the running remainder r;
\* quotient digits little-endian
RECURSIVE DivLimbs(_, _, _, _)
DivLimbs(n, d, i, r) ==
  IF i = 0 THEN [q |-> <<>>, r |-> r]
  ELSE With(DivStep(BStrip(<<n[i]>> \o r), d), LAMBDA s :
         Strict(s, With(DivLimbs(n, d, i - 1, s.r), LAMBDA rest :
                     [q |-> Append(rest.q, s.q), r |-> rest.r])))

\* floor(n / d) and n mod d, for d > 0 with top limb at least Base/2
BDivMod(n, d) ==
  With(DivLimbs(n, d, Len(n), <<>>), LAMBDA qr :
    [q |-> BStrip(qr.q), r |-> qr.r])

\* x / y for y > 0
FDiv(x, y) ==
  IF x.m = <<>> THEN FZero
  ELSE LET k    == Precision \div LimbBits + 1
           norm == LimbBits * k - Precision
       IN  With(BDivMod(BShl(x.m, norm + LimbBits * k), BShl(y.m, norm)),
                LAMBDA qr :
                  FRound(qr.q, x.e - y.e - LimbBits * k, qr.r # <<>>))

\* floor of the square root of a small natural n, by Newton's iteration
\* from x >= isqrt(n)
RECURSIVE ISqrtSmall(_, _)
ISqrtSmall(n, x) ==
  LET y == (x + n \div x) \div 2
  IN  IF y >= x THEN x ELSE ISqrtSmall(n, y)

\* Newton's iteration x -> floor((x + floor(n / x)) / 2) from x >= isqrt(n),
\* until it stops decreasing
RECURSIVE ISqrtNewton(_, _)
ISqrtNewton(n, x) ==
  With(LimbBits - BitLenSmall(x[Len(x)]), LAMBDA norm :
    With(BShr(BAdd(x, BDivMod(BShl(n, norm), BShl(x, norm)).q), 1),
         LAMBDA y : IF BCmp(y, x) >= 0 THEN x ELSE ISqrtNewton(n, y)))

\* floor(sqrt(n)) and n - floor(sqrt(n))^2, for n > 0; the first guess
\* comes from the top one or two limbs
ISqrt(n) ==
  LET j    == IF Len(n) % 2 = 1 THEN 1 ELSE 2
      top  == IF j = 1 THEN n[Len(n)] ELSE n[Len(n)] * Base + n[Len(n) - 1]
      x0   == BShl(BFromInt(ISqrtSmall(top, top) + 1),
                   ((Len(n) - j) \div 2) * LimbBits)
  IN  With(ISqrtNewton(n, x0), LAMBDA s :
        [s |-> s, r |-> BSub(n, BMul(s, s))])

\* x ** 0.5
FSqrt(x) ==
  IF x.m = <<>> THEN FZero
  ELSE LET k  == IF (x.e - (Precision + 4)) % 2 = 0
                 THEN Precision + 4 ELSE Precision + 5
       IN  With(ISqrt(BShl(x.m, k)), LAMBDA sr :
             FRound(sr.s, (x.e - k) \div 2, sr.r # <<>>))

(***************************************************************************)
(* Characters and strings.  A str is a sequence of one-character strings.  *)
(***************************************************************************)
LowerLetters == <<"a", "b", "c", "d", "e", "f", "g", "h", "i", "j", "k", "l", "m",
                  "n", "o", "p", "q", "r", "s", "t", "u", "v", "w", "x", "y", "z">>
UpperLetters == <<"A", "B", "C", "D", "E", "F", "G", "H", "I", "J", "K", "L", "M",
                  "N", "O", "P", "Q", "R", "S", "T", "U", "V", "W", "X", "Y", "Z">>
Digits == {"0", "1", "2", "3", "4", "5", "6", "7", "8", "9"}

Range(f) == {f[i] : i \in DOMAIN f}

\* regex class \w
IsWordChar(c) ==
  c \in Range(LowerLetters) \cup Range(UpperLetters) \cup Digits \cup {"_"}

\* regex class \s, and the separators of str.split()
IsSpace(c) == c \in {" ", "\t", "\n", "\r"}

LowerChar(c) ==
  IF c \in Range(UpperLetters)
  THEN LowerLetters[CHOOSE i \in DOMAIN UpperLetters : UpperLetters[i] = c]
  ELSE c

\* str.lower()
Lower(s) == [i \in 1..Len(s) |-> LowerChar(s[i])]

\* re.sub(r'\s+', ' ', s): every maximal run of whitespace becomes one space
RECURSIVE CollapseFrom(_, _)
CollapseFrom(s, i) ==
  IF i > Len(s) THEN <<>>
  ELSE IF IsSpace(s[i])
       THEN IF i > 1 /\ IsSpace(s[i - 1]) THEN CollapseFrom(s, i + 1)
            ELSE <<" ">> \o CollapseFrom(s, i + 1)
       ELSE <<s[i]>> \o CollapseFrom(s, i + 1)

\* str.strip()
Strip(s) ==
  LET ink == {i \in 1..Len(s) : ~IsSpace(s[i])}
  IN  IF ink = {} THEN <<>>
      ELSE SubSeq(s, CHOOSE i \in ink : \A j \in ink : i <= j,
                     CHOOSE i \in ink : \A j \in ink : i >= j)

\* str.split(): the maximal runs of non-whitespace, in order
RECURSIVE SplitFrom(_, _)
SplitFrom(s, i) ==
  IF i > Len(s) THEN <<>>
  ELSE IF IsSpace(s[i]) THEN SplitFrom(s, i + 1)
  ELSE LET j == CHOOSE k \in i..Len(s) :
                  /\ \A l \in i..k : ~IsSpace(s[l])
                  /\ k = Len(s) \/ IsSpace(s[k + 1])
       IN  <<SubSeq(s, i, j)>> \o SplitFrom(s, j + 1)

\* variant: str.split(' ') on a text without words gives the text itself
SplitKeepBlank(s) == IF SplitFrom(s, 1) = <<>> THEN <<s>> ELSE SplitFrom(s, 1)

Split(s) == SplitFrom(s, 1)

\* ' '.join(words)
RECURSIVE Join(_)
Join(words) ==
  IF words = <<>> THEN <<>>
  ELSE IF Len(words) = 1 THEN words[1]
  ELSE words[1] \o <<" ">> \o Join(Tail(words))

\* seq[start:stop] with Python's treatment of negative and out-of-range
\* indices (0-based, stop exclusive)
PySlice(seq, start, stop) ==
  LET n    == Len(seq)
      Norm(k) == IF k < 0 THEN (IF k + n < 0 THEN 0 ELSE k + n)
                 ELSE IF k > n THEN n ELSE k
      lo   == Norm(start)
      hi   == Norm(stop)
  IN  IF lo >= hi THEN <<>> ELSE SubSeq(seq, lo + 1, hi)

\* list.count(x)
Count(seq, x) == Cardinality({i \in 1..Len(seq) : seq[i] = x})

(***************************************************************************)
(* Local analysis engines                                                  *)
(***************************************************************************)
clean_text(text) ==
  LET low == Lower(text)
      sub == [i \in 1..Len(low) |->
                IF IsWordChar(low[i]) \/ IsSpace(low[i]) THEN low[i] ELSE " "]
  IN  Strip(CollapseFrom(sub, 1))

get_ngrams(text, n) ==
  LET words == Split(clean_text(text))
      cnt   == IF Len(words) - n + 1 > 0 THEN Len(words) - n + 1 ELSE 0
  IN  [k \in 1..cnt |-> Join(PySlice(words, k - 1, k - 1 + n))]

\* sum(xs): left-to-right float addition starting from 0
RECURSIVE FSum(_)
FSum(xs) ==
  IF xs = <<>> THEN FZero
  ELSE FAdd(FSum(SubSeq(xs, 1, Len(xs) - 1)), xs[Len(xs)])

\* The elements of set S listed in the order in which the sequence ord
\* (an enumeration of a superset of S) lists them: the iteration order of
\* a Python set under the process's string hashing.
RECURSIVE IterOrder(_, _)
IterOrder(S, ord) ==
  IF ord = <<>> THEN <<>>
  ELSE IF Head(ord) \in S THEN <<Head(ord)>> \o IterOrder(S, Tail(ord))
  ELSE IterOrder(S, Tail(ord))

F100 == FInt(100)

\* {w: words.count(w) / len(words) for w in vocab}, in the order of vocab
TermFrequencies(words, vocab) ==
  [i \in 1..Len(vocab) |-> FDiv(FInt(Count(words, vocab[i])), FInt(Len(words)))]

\* sum(v**2 for v in tf.values()) ** 0.5
Norm(tf) == FSqrt(FSum([i \in 1..Len(tf) |-> FMul(tf[i], tf[i])]))

\* the cosine of the term-frequency vectors tf1 and tf2, times 100
Cosine(tf1, tf2) ==
  With(Norm(tf1), LAMBDA norm1 :
    With(Norm(tf2), LAMBDA norm2 :
      LET dot == FSum([i \in 1..Len(tf1) |-> FMul(tf1[i], tf2[i])])
      IN  IF norm1 = FZero \/ norm2 = FZero THEN FZero
          ELSE FMul(FDiv(dot, FMul(norm1, norm2)), F100)))

calculate_tfidf_similarity(text1, text2, ord) ==
  With(Split(clean_text(text1)), LAMBDA words1 :
    With(Split(clean_text(text2)), LAMBDA words2 :
      IF words1 = <<>> \/ words2 = <<>> THEN FZero
      ELSE With(IterOrder(Range(words1) \cup Range(words2), ord), LAMBDA vocab :
             Cosine(TermFrequencies(words1, vocab),
                    TermFrequencies(words2, vocab)))))

\* variant: the denominator counts the list of n-grams, repeats included
calculate_ngram_overlap_list(text1, text2, n) ==
  LET ngrams1 == Range(get_ngrams(text1, n))
      ngrams2 == Range(get_ngrams(text2, n))
  IN  IF ngrams1 = {} THEN FZero
      ELSE FMul(FDiv(FInt(Cardinality(ngrams1 \cap ngrams2)),
                     FInt(Len(get_ngrams(text1, n)))), F100)

calculate_ngram_overlap(text1, text2, n) ==
  LET ngrams1 == Range(get_ngrams(text1, n))
      ngrams2 == Range(get_ngrams(text2, n))
  IN  IF ngrams1 = {} THEN FZero
      ELSE FMul(FDiv(FInt(Cardinality(ngrams1 \cap ngrams2)),
                     FInt(Cardinality(ngrams1))), F100)

\* re.split(r'[.!?]', text): the pieces between sentence terminators,
\* empty pieces included
IsTerminator(c) == c \in {".", "!", "?"}

RECURSIVE SentencesFrom(_, _)
SentencesFrom(s, i) ==
  LET stops == {k \in i..Len(s) : IsTerminator(s[k])}
  IN  IF stops = {} THEN <<SubSeq(s, i, Len(s))>>
      ELSE LET j == CHOOSE k \in stops : \A l \in stops : k <= l
           IN  <<SubSeq(s, i, j - 1)>> \o SentencesFrom(s, j + 1)

SplitSentences(text) == SentencesFrom(text, 1)

KeepWordOrSpace(c) == IsWordChar(c) \/ IsSpace(c)

\* the literal of len(phrase) > 20
MinPhraseLen == 20

\* the for loop of extract_key_phrases from sentence i on, with the
\* phrases and the seen set collected so far
RECURSIVE KeyPhraseLoop(_, _, _, _, _, _)
KeyPhraseLoop(sentences, i, min_words, max_phrases, phrases, seen) ==
  IF i > Len(sentences) THEN phrases
  ELSE LET words  == Split(SelectSeq(sentences[i], KeepWordOrSpace))
           phrase == Join(PySlice(words, 0, min_words))
           lower  == Lower(phrase)
       IN  IF /\ Len(words) >= min_words
              /\ lower \notin seen
              /\ Len(phrase) > MinPhraseLen
           THEN IF Len(phrases) + 1 >= max_phrases
                THEN Append(phrases, phrase)
                ELSE KeyPhraseLoop(sentences, i + 1, min_words, max_phrases,
                                   Append(phrases, phrase), seen \cup {lower})
           ELSE Strict(phrases, KeyPhraseLoop(sentences, i + 1, min_words,
                                              max_phrases, phrases, seen))

extract_key_phrases(text, min_words, max_phrases) ==
  KeyPhraseLoop(SplitSentences(text), 1, min_words, max_phrases, <<>>, {})

(***************************************************************************)
(* Main analysis engine: PlagiarismChecker.analyze                         *)
(***************************************************************************)
None == "None"

\* the literals of analyze
NgramSize == 3
KeyPhraseMinWords == 6
KeyPhraseMax == 15
TfidfWeight == FDiv(FInt(6), FInt(10))
NgramWeight == FDiv(FInt(4), FInt(10))
CommonPatterns ==
  { <<"t", "h", "e", " ", "r", "e", "s", "u", "l", "t", "s", " ", "s", "h", "o", "w">>,
    <<"i", "n", " ", "t", "h", "i", "s", " ", "s", "t", "u", "d", "y">>,
    <<"w", "e", " ", "f", "o", "u", "n", "d", " ", "t", "h", "a", "t">> }

\* pattern in s
Contains(s, pattern) ==
  \E i \in 1..(Len(s) - Len(pattern) + 1) :
    SubSeq(s, i, i + Len(pattern) - 1) = pattern

\* the running maximum of the loop over the references, started at 0.0
RECURSIVE RunningMax(_)
RunningMax(scores) ==
  IF scores = <<>> THEN FZero
  ELSE LET prev == RunningMax(SubSeq(scores, 1, Len(scores) - 1))
           last == scores[Len(scores)]
       IN  IF FCmp(last, prev) > 0 THEN last ELSE prev

\* variant: x goes in front of the elements of equal similarity
InsertSortedUnstable(sorted, x) ==
  LET k == Cardinality({i \in 1..Len(sorted) :
                          FCmp(sorted[i].similarity, x.similarity) > 0})
  IN  SubSeq(sorted, 1, k) \o <<x>> \o SubSeq(sorted, k + 1, Len(sorted))

\* one step of the stable descending sort: x goes behind every element
\* whose similarity is not smaller
InsertSorted(sorted, x) ==
  LET k == Cardinality({i \in 1..Len(sorted) :
                          FCmp(sorted[i].similarity, x.similarity) >= 0})
  IN  SubSeq(sorted, 1, k) \o <<x>> \o SubSeq(sorted, k + 1, Len(sorted))

\* sources.sort(key=lambda x: x.similarity, reverse=True)
RECURSIVE SortBySimilarity(_)
SortBySimilarity(sources) ==
  IF sources = <<>> THEN <<>>
  ELSE InsertSorted(SortBySimilarity(SubSeq(sources, 1, Len(sources) - 1)),
                    sources[Len(sources)])

\* variant: the sum is not divided
OverallScoreSum(scores) ==
  IF Len(scores) = 0 THEN FZero ELSE FSum(scores)

\* sum(s.similarity for s in sources) / len(sources) if sources else 0.0
OverallScore(scores) ==
  IF Len(scores) = 0 THEN FZero
  ELSE FDiv(FSum(scores), FInt(Len(scores)))

\* combined score of the text against one reference
CombinedScore(txt, ref, ord) ==
  LET tfidf_sim == calculate_tfidf_similarity(txt, ref.text, ord)
      ngram_sim == calculate_ngram_overlap(txt, ref.text, NgramSize)
  IN  FAdd(FMul(tfidf_sim, TfidfWeight), FMul(ngram_sim, NgramWeight))

PhraseResult(phrase) ==
  LET found == \E pattern \in CommonPatterns : Contains(Lower(phrase), pattern)
  IN  [text |-> phrase, found |-> found,
       source |-> IF found THEN "Common Pattern" ELSE None]

\* the local part of analyze: statistics, scores against the reference
\* corpus refs, key phrases, overall score and the sorted source list
LocalAnalysis(txt, refs, ord) ==
  With([i \in 1..Len(refs) |-> CombinedScore(txt, refs[i], ord)], LAMBDA scores :
    LET words   == Split(txt)
        sources == [i \in 1..Len(refs) |->
                      [name |-> refs[i].name, source_type |-> refs[i].type,
                       similarity |-> scores[i], url |-> None,
                       matched_phrases |-> None]]
        phrases == extract_key_phrases(txt, KeyPhraseMinWords, KeyPhraseMax)
    IN  [word_count      |-> Len(words),
         unique_words    |-> Cardinality({Lower(words[i]) : i \in 1..Len(words)}),
         max_match       |-> RunningMax(scores),
         sources_checked |-> Len(sources),
         sources         |-> SortBySimilarity(sources),
         key_phrases     |-> [i \in 1..Len(phrases) |-> PhraseResult(phrases[i])],
         overall_score   |-> OverallScore(scores)])

(***************************************************************************)
(* External detection services.  A call yields [value, token, calls,       *)
(* raised]: the returned value, the Copyleaks token afterwards, the        *)
(* requests issued, and whether an exception left the call.  The           *)
(* behaviour of the remote side is a record e of responses (None for a     *)
(* service that is not asked):                                             *)
(*   login   "token" | "no_token" | "rejected" | "raises"                  *)
(*   scan    "accepted" | "rejected" | "raises"                            *)
(*   zerogpt "json" | "empty" | "rejected" | "raises"                      *)
(* ("no_token": status 200 without access_token; "empty": status 200 with  *)
(* a falsy JSON body; "raises": requests missing, network error, bad body) *)
(***************************************************************************)
Responses(copyleaks, zerogpt) ==
  [login   : IF copyleaks THEN {"token", "no_token", "rejected", "raises"}
             ELSE {"None"},
   scan    : IF copyleaks THEN {"accepted", "rejected", "raises"} ELSE {"None"},
   zerogpt : IF zerogpt THEN {"json", "empty", "rejected", "raises"}
             ELSE {"None"}]

\* variant: no handler, the exception leaves the call
TryPropagate(r, fallback) == r

\* try: ... except Exception: return fallback
TryExcept(r, fallback) ==
  IF r.raised THEN [r EXCEPT !.value = fallback, !.raised = FALSE] ELSE r

\* CopyleaksAPI.login
CopyleaksLogin(tok, e) ==
  TryExcept(
    [value  |-> IF e.login \in {"token", "no_token"} THEN TRUE ELSE FALSE,
     token  |-> IF e.login = "token" THEN "access_token"
                ELSE IF e.login = "no_token" THEN None ELSE tok,
     calls  |-> <<"Copyleaks.login">>,
     raised |-> e.login = "raises"],
    FALSE)

\* CopyleaksAPI.check_plagiarism
CopyleaksCheck(tok, e) ==
  LET lg == IF tok = None THEN CopyleaksLogin(tok, e)
            ELSE [value |-> TRUE, token |-> tok, calls |-> <<>>, raised |-> FALSE]
  IN  IF lg.raised \/ ~lg.value
      THEN [value |-> None, token |-> lg.token, calls |-> lg.calls,
            raised |-> lg.raised]
      ELSE TryExcept(
             [value  |-> IF e.scan = "accepted" THEN "submitted" ELSE None,
              token  |-> lg.token,
              calls  |-> lg.calls \o <<"Copyleaks.scan">>,
              raised |-> e.scan = "raises"],
             None)

\* ZeroGPTAPI.check
ZeroGPTCheck(tok, e) ==
  TryExcept(
    [value  |-> IF e.zerogpt = "json" THEN "report"
                ELSE IF e.zerogpt = "empty" THEN "empty" ELSE None,
     token  |-> tok,
     calls  |-> <<"ZeroGPT.detect">>,
     raised |-> e.zerogpt = "raises"],
    None)

\* truth value of a service result in `if result`
Truthy(v) == v \notin {None, "empty"}

\* PlagiarismChecker.__init__: which service objects exist
Checker(cfg) ==
  [copyleaks |-> cfg.copyleaks_email /\ cfg.copyleaks_key,
   zerogpt   |-> cfg.zerogpt_key,
   google    |-> cfg.google_api_key /\ cfg.google_cse_id]

ReadyStatus(present) == IF present THEN "Ready" ELSE "Not configured"

\* the api_status bookkeeping and the API checks of analyze
ApiChecks(use_apis, verbose, cfg, tok, e) ==
  LET chk  == Checker(cfg)
      init == [api \in {"Copyleaks", "ZeroGPT", "Google Scholar",
                        "Local TF-IDF", "N-gram Analysis"} |->
                 CASE api = "Copyleaks" -> ReadyStatus(chk.copyleaks)
                   [] api = "ZeroGPT" -> ReadyStatus(chk.zerogpt)
                   [] api = "Google Scholar" -> ReadyStatus(chk.google)
                   [] OTHER -> "Active"]
      skip == [value |-> None, token |-> tok, calls |-> <<>>, raised |-> FALSE]
      runC == use_apis /\ chk.copyleaks /\ verbose
      c    == IF runC THEN CopyleaksCheck(tok, e) ELSE skip
      st1  == IF runC /\ ~c.raised
              THEN [init EXCEPT !["Copyleaks"] =
                      IF Truthy(c.value) THEN "Submitted" ELSE "Error"]
              ELSE init
      runZ == use_apis /\ chk.zerogpt /\ verbose /\ ~c.raised
      z    == IF runZ THEN ZeroGPTCheck(c.token, e) ELSE skip
      st2  == IF runZ /\ ~z.raised
              THEN [st1 EXCEPT !["ZeroGPT"] =
                      IF Truthy(z.value) THEN "Complete" ELSE "Error"]
              ELSE st1
  IN  [api_status |-> st2,
       token      |-> IF runZ THEN z.token ELSE c.token,
       calls      |-> c.calls \o z.calls,
       raised     |-> c.raised \/ z.raised]

\* PlagiarismChecker.analyze, given its local part: the AnalysisResult (or
\* None with the exception that left the call), the token and the requests
analyze(local, use_apis, verbose, cfg, tok, e, now) ==
  With(ApiChecks(use_apis, verbose, cfg, tok, e), LAMBDA api :
      [result |-> IF api.raised THEN None
                  ELSE [overall_score   |-> local.overall_score,
                        word_count      |-> local.word_count,
                        unique_words    |-> local.unique_words,
                        max_match       |-> local.max_match,
                        sources_checked |-> local.sources_checked,
                        sources         |-> local.sources,
                        key_phrases     |-> local.key_phrases,
                        api_status      |-> api.api_status,
                        timestamp       |-> now],
       exc    |-> IF api.raised THEN "Exception" ELSE None,
       token  |-> api.token,
       calls  |-> api.calls])

\* the responses that the requests of one call actually received
Observed(e, reqs) ==
  [login   |-> IF "Copyleaks.login" \in Range(reqs) THEN e.login ELSE None,
   scan    |-> IF "Copyleaks.scan" \in Range(reqs) THEN e.scan ELSE None,
   zerogpt |-> IF "ZeroGPT.detect" \in Range(reqs) THEN e.zerogpt ELSE None]

(***************************************************************************)
(* Bounded inputs                                                          *)
(***************************************************************************)
RECURSIVE Flatten(_)
Flatten(ss) == IF ss = <<>> THEN <<>> ELSE Head(ss) \o Flatten(Tail(ss))

SeqsUpTo(S, n) == UNION {[1..k -> S] : k \in 0..n}

\* the texts made of at most n of the given pieces
TextsOver(pieces, n) == {Flatten(ss) : ss \in SeqsUpTo(pieces, n)}

\* the sequences without repetition of at most n elements of the sequence pool
InjectiveSeqs(pool, n) ==
  {[i \in 1..Len(ix) |-> pool[ix[i]]] :
     ix \in {jx \in SeqsUpTo(1..Len(pool), n) :
               \A i, j \in 1..Len(jx) : i # j => jx[i] # jx[j]}}

Reverse(seq) == [i \in 1..Len(seq) |-> seq[Len(seq) + 1 - i]]

MaxPieces == 2
MaxCorpus == 2

\* input texts of the scoring runs: "a a ", "b c ", "B! " and blank pieces
ScorePieces == {<<"a", " ", "a", " ">>, <<"b", " ", "c", " ">>, <<"B", "!", " ">>, <<" ", "\n">>}
ScoreTexts == TextsOver(ScorePieces, MaxPieces)

\* "In this study we found that delays matter."
SentenceText ==
  <<"I", "n", " ", "t", "h", "i", "s", " ", "s", "t", "u", "d", "y", " ", "w", "e", " ", "f", "o", "u", "n", "d", " ", "t", "h", "a", "t", " ", "d", "e", "l", "a", "y", "s", " ", "m", "a", "t", "t", "e", "r", ".">>

\* the entries of ACADEMIC_REFERENCES, with short reference texts:
\* "A a, b c.", "b c", "c b", "a b c a a" and ""
RefPool ==
  << [id |-> "WHO2024", name |-> "WHO Global TB Report 2024",
      type |-> "Official Report", text |-> <<"A", " ", "a", ",", " ", "b", " ", "c", ".">>],
     [id |-> "Teo2021", name |-> "Teo et al. 2021 - TB Delays Review",
      type |-> "Meta-analysis", text |-> <<"b", " ", "c">>],
     [id |-> "Storla2008", name |-> "Storla et al. 2008 - Delay Review",
      type |-> "Systematic Review", text |-> <<"c", " ", "b">>],
     [id |-> "Sreeramareddy2009", name |-> "Sreeramareddy et al. 2009",
      type |-> "Systematic Review", text |-> <<"a", " ", "b", " ", "c", " ", "a", " ", "a">>],
     [id |-> "Subbaraman2016", name |-> "Subbaraman et al. 2016 - India TB Cascade",
      type |-> "Meta-analysis", text |-> <<>>] >>

\* reference corpora: the five entries in their order, and every ordering
\* of at most MaxCorpus of the first three
Corpora == {RefPool} \cup InjectiveSeqs(SubSeq(RefPool, 1, 3), MaxCorpus)

\* every word of the texts above, and the string-hash orders considered
Vocabulary ==
  << <<"a">>, <<"b">>, <<"c">> >> \o Split(clean_text(SentenceText))
Orders == {Vocabulary, Reverse(Vocabulary)}

\* APIConfig as load_config can return it: which keys are set
NoKeys ==
  [copyleaks_email |-> FALSE, copyleaks_key |-> FALSE, zerogpt_key |-> FALSE,
   google_api_key |-> FALSE, google_cse_id |-> FALSE]
Configs ==
  {[copyleaks_email |-> ce, copyleaks_key |-> ck, zerogpt_key |-> z,
    google_api_key |-> g, google_cse_id |-> g] :
     ce \in BOOLEAN, ck \in BOOLEAN, z \in BOOLEAN, g \in BOOLEAN}

\* the command-line flags of main
Flags == [copyleaks : BOOLEAN, zerogpt : BOOLEAN, all_apis : BOOLEAN]

\* values of datetime.now().isoformat()
Clock == {"T1", "T2"}

(***************************************************************************)
(* State                                                                   *)
(***************************************************************************)
VARIABLES
  pc,         \* "start" before analyze and "done" after it; "call" before
              \* a direct call of an engine and "returned" after it
  text,       \* the input text
  corpus,     \* ACADEMIC_REFERENCES
  order,      \* the process's string-hash order (iteration order of sets)
  config,     \* the APIConfig the checker was built from
  token,      \* CopyleaksAPI.token
  argv,       \* <<flags>> when run through main, else <<>>
  call,       \* [use_apis, verbose] of the analyze call, or None
  calls,      \* the requests sent to external services
  responses,  \* what those requests received
  exc,        \* the exception that left analyze, or None
  result,     \* the AnalysisResult, or None
  fn_in,      \* arguments of a direct call of one of the local engines
  fn_out,     \* [fn, value]: its result
  previous    \* <<[result, corpus]>>: the result of the call of analyze
              \* before this one and the corpus it left; <<>> if none

vars == <<pc, text, corpus, order, config, token, argv, call, calls,
          responses, exc, result, fn_in, fn_out, previous>>

NoResponses == [login |-> None, scan |-> None, zerogpt |-> None]

\* a process before its call of analyze
Fresh ==
  /\ pc = "start"
  /\ token = None /\ argv = <<>> /\ call = None /\ calls = <<>>
  /\ responses = NoResponses /\ exc = None /\ result = None
  /\ fn_in = None /\ fn_out = None
  /\ previous = <<>>

\* scoring runs: no API key in the environment
Init ==
  /\ Fresh
  /\ text \in ScoreTexts
  /\ corpus \in Corpora
  /\ order \in Orders
  /\ config = NoKeys

\* the possible effects of one call analyze(text, use_apis, verbose), over
\* the responses of the services it asks and the time of day
Effects(local, use_apis, verbose, flags) ==
  {[r     |-> analyze(local, use_apis, verbose, config, token, e, now),
    e     |-> e,
    call  |-> [use_apis |-> use_apis, verbose |-> verbose],
    flags |-> flags] :
     e \in Responses(use_apis /\ verbose /\ Checker(config).copyleaks,
                     use_apis /\ verbose /\ Checker(config).zerogpt),
     now \in Clock}

Finish(eff) ==
  /\ result' = eff.r.result
  /\ exc' = eff.r.exc
  /\ token' = eff.r.token
  /\ calls' = eff.r.calls
  /\ responses' = Observed(eff.e, eff.r.calls)
  /\ call' = eff.call
  /\ argv' = eff.flags
  /\ pc' = "done"
  /\ UNCHANGED <<text, corpus, order, config, fn_in, fn_out, previous>>

\* main: the flags decide use_apis; analyze runs with verbose left at True
Main ==
  /\ pc = "start"
  /\ \E eff \in LET local == LocalAnalysis(text, corpus, order)
                IN  UNION {Effects(local,
                                   flags.copyleaks \/ flags.zerogpt \/ flags.all_apis,
                                   TRUE, <<flags>>) : flags \in Flags} :
       Finish(eff)

\* a direct call PlagiarismChecker(config).analyze(text, use_apis, verbose)
Analyze ==
  /\ pc = "start"
  /\ \E eff \in LET local == LocalAnalysis(text, corpus, order)
                IN  UNION {Effects(local, use_apis, verbose, <<>>) :
                             use_apis \in BOOLEAN, verbose \in BOOLEAN} :
       Finish(eff)

Next == Main \/ Analyze

Spec == Init /\ [][Next]_vars

(***************************************************************************)
(* Runs with API keys: every configuration, few texts                      *)
(***************************************************************************)
\* "a a b c " and the sentence
ApiTexts == {<<"a", " ", "a", " ", "b", " ", "c", " ">>, SentenceText}
ApiCorpora == {SubSeq(RefPool, 1, 2)}

InitApi ==
  /\ Fresh
  /\ text \in ApiTexts
  /\ corpus \in ApiCorpora
  /\ order = Vocabulary
  /\ config \in Configs

SpecApi == InitApi /\ [][Next]_vars

(***************************************************************************)
(* Repeated analyses of one text: further calls on the same checker, and   *)
(* further runs of the program (a new process, with its own string-hash    *)
(* order and a new checker)                                                *)
(***************************************************************************)
\* "a a ", "b c " and a blank text
RepeatTexts == {<<"a", " ", "a", " ">>, <<"b", " ", "c", " ">>, <<" ", "\n">>}

InitRepeat ==
  /\ Fresh
  /\ text \in RepeatTexts
  /\ corpus = RefPool
  /\ order \in Orders
  /\ config = NoKeys

\* the caller keeps the result and is ready for the next call
NextCall ==
  /\ pc = "done"
  /\ exc = None
  /\ previous' = <<[result |-> result, corpus |-> corpus]>>
  /\ argv' = <<>> /\ call' = None /\ calls' = <<>>
  /\ responses' = NoResponses /\ result' = None
  /\ pc' = "start"

\* another call on the same checker, in the same process
Again ==
  /\ NextCall
  /\ UNCHANGED <<text, corpus, order, config, token, exc, fn_in, fn_out>>

\* another run of the program on the same text: the new process has its
\* own string-hash order, the module constants are built anew and the
\* checker starts without a token
Restart ==
  /\ NextCall
  /\ order' \in Orders
  /\ token' = None
  /\ UNCHANGED <<text, corpus, config, exc, fn_in, fn_out>>

NextRepeat == Main \/ Analyze \/ Again \/ Restart

SpecRepeat == InitRepeat /\ [][NextRepeat]_vars

(***************************************************************************)
(* Direct calls of the local engines                                       *)
(***************************************************************************)
\* no analysis takes place in these runs
Idle ==
  /\ pc = "call"
  /\ text = <<>> /\ corpus = <<>> /\ config = NoKeys
  /\ token = None /\ argv = <<>> /\ call = None /\ calls = <<>>
  /\ responses = NoResponses /\ exc = None /\ result = None
  /\ fn_out = None
  /\ previous = <<>>

Return(fn, value) ==
  /\ pc = "call"
  /\ fn_out' = [fn |-> fn, value |-> value]
  /\ pc' = "returned"
  /\ UNCHANGED <<text, corpus, order, config, token, argv, call, calls,
                 responses, exc, result, fn_in, previous>>

\* n-gram engines: texts of at most MaxWords of the pieces "a " and "B,",
\* window lengths -MaxWindow..MaxWindow
MaxWords == 3
MaxWindow == 3
WordPieces == {<<"a", " ">>, <<"B", ",">>}
WordTexts == TextsOver(WordPieces, MaxWords)

InitNgram ==
  /\ Idle
  /\ order = Vocabulary
  /\ fn_in \in [a : WordTexts, b : WordTexts, n : (0 - MaxWindow)..MaxWindow]

CallGetNgrams == Return("get_ngrams", get_ngrams(fn_in.a, fn_in.n))

CallNgramOverlap ==
  Return("calculate_ngram_overlap",
         calculate_ngram_overlap(fn_in.a, fn_in.b, fn_in.n))

NextNgram == CallGetNgrams \/ CallNgramOverlap

SpecNgram == InitNgram /\ [][NextNgram]_vars

\* TF cosine: the same texts, under each hash order
InitTfidf ==
  /\ Idle
  /\ order \in Orders
  /\ fn_in \in [a : WordTexts, b : WordTexts]

CallTfidf ==
  Return("calculate_tfidf_similarity",
         calculate_tfidf_similarity(fn_in.a, fn_in.b, order))

NextTfidf == CallTfidf

SpecTfidf == InitTfidf /\ [][NextTfidf]_vars

\* key phrases: texts of at most MaxPhrasePieces of the pieces
\* "plagiarism detectors ", "Plagiarism Detectors ", "plagiarism detection ",
\* "tuberculosis diagnosis" and ".", with min_words in 0..MaxMinWords and
\* max_phrases in 0..MaxPhrases
MaxPhrasePieces == 4
MaxMinWords == 3
MaxPhrases == 2
PhrasePieces ==
  { <<"p", "l", "a", "g", "i", "a", "r", "i", "s", "m", " ", "d", "e", "t", "e", "c", "t", "o", "r", "s", " ">>,
    <<"P", "l", "a", "g", "i", "a", "r", "i", "s", "m", " ", "D", "e", "t", "e", "c", "t", "o", "r", "s", " ">>,
    <<"p", "l", "a", "g", "i", "a", "r", "i", "s", "m", " ", "d", "e", "t", "e", "c", "t", "i", "o", "n", " ">>,
    <<"t", "u", "b", "e", "r", "c", "u", "l", "o", "s", "i", "s", " ", "d", "i", "a", "g", "n", "o", "s", "i", "s">>,
    <<".">> }
PhraseTexts == TextsOver(PhrasePieces, MaxPhrasePieces)

InitPhrases ==
  /\ Idle
  /\ order = Vocabulary
  /\ fn_in \in [text : PhraseTexts, min_words : 0..MaxMinWords,
                max_phrases : 0..MaxPhrases]

CallExtractKeyPhrases ==
  Return("extract_key_phrases",
         extract_key_phrases(fn_in.text, fn_in.min_words, fn_in.max_phrases))

NextPhrases == CallExtractKeyPhrases

SpecPhrases == InitPhrases /\ [][NextPhrases]_vars

(***************************************************************************)
(* Properties of analyze                                                   *)
(***************************************************************************)
\* analyze has returned an AnalysisResult
Returned == pc = "done" /\ exc = None

Similarities ==
  [i \in 1..Len(result.sources) |-> result.sources[i].similarity]

\* the position in the corpus of the reference entry called name
CorpusIndex(name) == CHOOSE k \in 1..Len(corpus) : corpus[k].name = name

\* C1: the returned sources are sorted non-increasing by similarity, and
\* two sources of equal similarity stand in the order of their reference
\* entries in the corpus.
SourcesSortedStable ==
  Returned =>
    \A i, j \in 1..Len(result.sources) :
      i < j =>
        LET c == FCmp(result.sources[i].similarity,
                      result.sources[j].similarity)
        IN  /\ c >= 0
            /\ c = 0 => CorpusIndex(result.sources[i].name)
                          < CorpusIndex(result.sources[j].name)

\* a result with two sources tied at a non-zero similarity below the top one,
\* after a sort that moved entries
SourcesTieWitness ==
  /\ Returned
  /\ \E i, j, k \in 1..Len(result.sources) :
       /\ k < i /\ i < j
       /\ result.sources[i].similarity = result.sources[j].similarity
       /\ result.sources[i].similarity # FZero
       /\ FCmp(result.sources[k].similarity, result.sources[i].similarity) > 0
  /\ CorpusIndex(result.sources[1].name) # 1

\* exact arithmetic on floats: the integer x / 2^e0, for e0 at most the
\* exponent of x
Scaled(x, e0) == IF x.m = <<>> THEN <<>> ELSE BShl(x.m, x.e - e0)

RECURSIVE ScaledSum(_, _)
ScaledSum(xs, e0) ==
  IF xs = <<>> THEN <<>>
  ELSE BAdd(ScaledSum(Tail(xs), e0), Scaled(Head(xs), e0))

MinExp(xs) ==
  LET es == {xs[i].e : i \in 1..Len(xs)}
  IN  CHOOSE e \in es : \A f \in es : e <= f

\* mean is the arithmetic mean of the floats xs up to a relative error of
\* 2^-45: |Len(xs) * mean - sum(xs)| * 2^45 <= sum(xs), computed exactly
IsMean(mean, xs) ==
  LET e0    == MinExp(Append(xs, mean))
      total == BStrip(ScaledSum(xs, e0))
      prod  == BMulSmall(Scaled(mean, e0), Len(xs))
      diff  == IF BCmp(prod, total) >= 0 THEN BSub(prod, total)
               ELSE BSub(total, prod)
  IN  diff = <<>> \/ BCmp(BShl(diff, 45), total) <= 0

\* C2: overall_score is the arithmetic mean of the similarities of the
\* sources (to floating-point accuracy), max_match is their maximum, both
\* are 0.0 without sources, and sources_checked is the number of corpus
\* entries.
ScoresSummarised ==
  Returned =>
    /\ result.sources_checked = Len(corpus)
    /\ Len(result.sources) = Len(corpus)
    /\ IF result.sources = <<>>
       THEN result.overall_score = FZero /\ result.max_match = FZero
       ELSE /\ IsMean(result.overall_score, Similarities)
            /\ \E i \in 1..Len(result.sources) :
                 result.sources[i].similarity = result.max_match
            /\ \A i \in 1..Len(result.sources) :
                 FCmp(result.sources[i].similarity, result.max_match) <= 0

\* a result over the five references with three different similarities,
\* whose mean lies strictly between 0 and the maximum
ScoresSummarisedWitness ==
  /\ Returned
  /\ corpus = RefPool
  /\ Cardinality(Range(Similarities)) >= 3
  /\ FCmp(result.overall_score, FZero) > 0
  /\ FCmp(result.overall_score, result.max_match) < 0

\* a result for the empty corpus
NoSourcesWitness ==
  Returned /\ corpus = <<>> /\ Split(text) # <<>> /\ result.sources = <<>>

Blank(s) == \A i \in 1..Len(s) : IsSpace(s[i])

\* C6: for an empty or whitespace-only text and a non-empty corpus, analyze
\* returns without a fault, with no words, one source of similarity 0.0 per
\* corpus entry, sources_checked the corpus size (5 for the default corpus),
\* overall_score and max_match 0.0 and no key phrases.
BlankTextScoresZero ==
  (pc = "done" /\ Blank(text) /\ corpus # <<>>) =>
    /\ exc = None
    /\ result.word_count = 0
    /\ result.unique_words = 0
    /\ Len(result.sources) = Len(corpus)
    /\ {result.sources[i].name : i \in 1..Len(result.sources)}
         = {corpus[i].name : i \in 1..Len(corpus)}
    /\ \A i \in 1..Len(result.sources) : result.sources[i].similarity = FZero
    /\ result.sources_checked = Len(corpus)
    /\ (Len(corpus) = 5 => result.sources_checked = 5)
    /\ result.overall_score = FZero
    /\ result.max_match = FZero
    /\ result.key_phrases = <<>>

\* a whitespace-only text analysed against the five references
BlankTextWitness ==
  /\ Returned
  /\ text # <<>> /\ Blank(text)
  /\ corpus = RefPool
  /\ result.sources_checked = 5

\* C8: every similarity stored in a SourceMatch lies in [0, 100]
\* (refuted: a text with the words of a reference scores above 100).
SimilarityInRange ==
  Returned =>
    \A i \in 1..Len(result.sources) :
      /\ FCmp(result.sources[i].similarity, FZero) >= 0
      /\ FCmp(result.sources[i].similarity, F100) <= 0

\* the services a caller asked for: main's flags name them; a direct call of
\* analyze has one switch, use_apis, for all of them
Requested(service) ==
  IF Len(argv) = 0 THEN call.use_apis
  ELSE argv[1].all_apis \/ (IF service = "Copyleaks" THEN argv[1].copyleaks
                            ELSE argv[1].zerogpt)

\* C4: analyze sends requests to a service only if the caller asked for
\* that service (refuted: --copyleaks alone also sends the text to ZeroGPT).
ServicesOnlyOnRequest ==
  pc = "done" =>
    /\ ("ZeroGPT.detect" \in Range(calls) => Requested("ZeroGPT"))
    /\ ({"Copyleaks.login", "Copyleaks.scan"} \cap Range(calls) # {}
          => Requested("Copyleaks"))

\* a service was asked and failed: it raised, or answered with a
\* non-success status
CopyleaksFailed ==
  responses.login \in {"rejected", "raises"}
    \/ responses.scan \in {"rejected", "raises"}
ZeroGPTFailed == responses.zerogpt \in {"rejected", "raises"}

\* C5: when a configured service fails during analyze, its api_status entry
\* is "Error", analyze returns normally, and the local fields are those of
\* the analysis without any service.
ServiceFailureContained ==
  (pc = "done" /\ (CopyleaksFailed \/ ZeroGPTFailed)) =>
    /\ exc = None
    /\ CopyleaksFailed => result.api_status["Copyleaks"] = "Error"
    /\ ZeroGPTFailed => result.api_status["ZeroGPT"] = "Error"
    /\ LET local == LocalAnalysis(text, corpus, order)
       IN  /\ result.sources = local.sources
           /\ result.overall_score = local.overall_score
           /\ result.max_match = local.max_match
           /\ result.word_count = local.word_count
           /\ result.unique_words = local.unique_words
           /\ result.key_phrases = local.key_phrases

\* both services failed in one run (a raised scan after a login, and a
\* rejected detection), on a text with a key phrase
ServiceFailureWitness ==
  /\ Returned
  /\ responses.login = "token" /\ responses.scan = "raises"
  /\ responses.zerogpt = "rejected"
  /\ result.api_status["Copyleaks"] = "Error"
  /\ result.api_status["ZeroGPT"] = "Error"
  /\ result.key_phrases # <<>>
  /\ Len(result.sources) = 2

(***************************************************************************)
(* Properties of the engines                                               *)
(***************************************************************************)
Called(fn) == pc = "returned" /\ fn_out.fn = fn

\* C3: for n <= 0 get_ngrams returns the empty sequence and
\* calculate_ngram_overlap returns 0.0 (refuted: the slices are empty or
\* negative-ended and still yield n-grams).
NonPositiveWindowEmpty ==
  (pc = "returned" /\ fn_in.n <= 0) =>
    /\ fn_out.fn = "get_ngrams" => fn_out.value = <<>>
    /\ fn_out.fn = "calculate_ngram_overlap" => fn_out.value = FZero

\* the set of n-grams of a text, each a sequence of n consecutive tokens
NgramSet(s, n) ==
  LET words == Split(clean_text(s))
  IN  {SubSeq(words, k, k + n - 1) : k \in 1..(Len(words) - n + 1)}

\* C10: for n >= 1, calculate_ngram_overlap(a, b, n) is |A \cap B| / |A| * 100
\* over the sets A, B of n-grams of a and b, and 0.0 when A is empty.
NgramOverlapIsSetRatio ==
  (Called("calculate_ngram_overlap") /\ fn_in.n >= 1) =>
    LET A == NgramSet(fn_in.a, fn_in.n)
        B == NgramSet(fn_in.b, fn_in.n)
    IN  fn_out.value =
          IF A = {} THEN FZero
          ELSE FMul(FDiv(FInt(Cardinality(A \cap B)), FInt(Cardinality(A))),
                    F100)

\* a call where a has a repeated n-gram, shares some but not all of its
\* n-grams with b, and where the arguments swapped give another value
NgramOverlapWitness ==
  /\ Called("calculate_ngram_overlap") /\ fn_in.n >= 1
  /\ Len(get_ngrams(fn_in.a, fn_in.n))
       > Cardinality(NgramSet(fn_in.a, fn_in.n))
  /\ fn_out.value \notin {FZero, F100}
  /\ fn_out.value # calculate_ngram_overlap(fn_in.b, fn_in.a, fn_in.n)

\* a call where a has fewer than n tokens
NgramOverlapShortWitness ==
  /\ Called("calculate_ngram_overlap") /\ fn_in.n >= 1
  /\ Split(clean_text(fn_in.a)) # <<>>
  /\ Len(Split(clean_text(fn_in.a))) < fn_in.n
  /\ fn_out.value = FZero

\* C9: calculate_tfidf_similarity is symmetric, gives 100.0 for a text
\* with words against itself, and 0.0 when either text has no words
\* (refuted: "a b" against itself gives less than 100.0).
TfidfSymmetricReflexive ==
  Called("calculate_tfidf_similarity") =>
    LET words1 == Split(clean_text(fn_in.a))
        words2 == Split(clean_text(fn_in.b))
    IN  /\ fn_out.value = calculate_tfidf_similarity(fn_in.b, fn_in.a, order)
        /\ (words1 = <<>> \/ words2 = <<>>) => fn_out.value = FZero
        /\ (fn_in.a = fn_in.b /\ words1 # <<>>) => fn_out.value = F100

\* the reference sequence of key phrases: per sentence the first min_words
\* tokens, kept when the sentence has min_words tokens and the candidate
\* more than 20 characters, and no earlier kept candidate has the same
\* case-folded form
ReferencePhrases(s, min_words) ==
  LET sentences == SplitSentences(s)
      tokens(i) == Split(SelectSeq(sentences[i], KeepWordOrSpace))
      cand(i)   == Join(SubSeq(tokens(i), 1, min_words))
      ok(i)     == Len(tokens(i)) >= min_words /\ Len(cand(i)) > 20
      kept      == {i \in 1..Len(sentences) :
                      /\ ok(i)
                      /\ \A j \in 1..(i - 1) :
                           ok(j) => Lower(cand(j)) # Lower(cand(i))}
      nth(k)    == CHOOSE i \in kept : Cardinality({j \in kept : j <= i}) = k
  IN  [k \in 1..Cardinality(kept) |-> cand(nth(k))]

Agree(r1, r2) ==
  /\ r1.overall_score = r2.overall_score
  /\ r1.word_count = r2.word_count
  /\ r1.unique_words = r2.unique_words
  /\ r1.max_match = r2.max_match
  /\ r1.sources_checked = r2.sources_checked
  /\ r1.sources = r2.sources
  /\ r1.key_phrases = r2.key_phrases
  /\ r1.api_status = r2.api_status

\* C11: a call of analyze returns the result of the call before it on the
\* same text and corpus, timestamp excepted, and leaves the corpus as it
\* was (refuted: in another run of the program the words are summed in
\* another order and the scores differ in the last bits).
RepeatedCallsAgree ==
  (Returned /\ previous # <<>>) =>
    /\ Agree(result, previous[1].result)
    /\ corpus = previous[1].corpus

\* the call analyze(text, use_apis, verbose=False) on a checker without a
\* token, for a text whose local part is that of the AnalysisResult r, at
\* the time of r, the services answering as they did in this run
Quiet(r) ==
  analyze(r, call.use_apis, FALSE, config, None, responses, r.timestamp)

\* C12: a first call of analyze with verbose=True sends the requests and
\* returns the result that the same call with verbose=False sends and
\* returns, api_status included (refuted: with verbose=False no service is
\* asked and its api_status entry stays "Ready").
VerboseOnlyConsole ==
  (Returned /\ call.verbose /\ previous = <<>>) =>
    /\ Quiet(result).exc = None
    /\ Quiet(result).calls = calls
    /\ Agree(Quiet(result).result, result)

====
